---- MODULE Spec2Model ----
(***************************************************************************)
(* Dancing Links (DLX) exact-cover engine of package cover.                *)
(*                                                                         *)
(* The four-way linked sparse matrix is an arena `heap`: a function from   *)
(* node ids to Node records.  Node 0 is the root, nodes 1..colCount are    *)
(* the column headers in name order, data nodes follow in creation order.  *)
(* Cover and Uncover are the atomic steps; Search and Solve are state      *)
(* machines over an explicit call stack, one step per Cover/Uncover call.  *)
(***************************************************************************)
EXTENDS Integers, Sequences, FiniteSets, TLC

VARIABLES
    matrix,     \* input incidence matrix: sequence of rows of integers
    headers,    \* input column names
    partial,    \* Solve's argument: digit -> sequence of column names
    g,          \* the Guesser handed to Search
    heap,       \* node id -> Node record
    O,          \* the Solution: sequence of node ids (index = depth + 1)
    pc,         \* where the top-level caller is
    todo,       \* Solve: forced (digit, column name) pairs still to commit
    k,          \* Solve: depth counter k
    n,          \* Solve: local n (the forced row's node)
    o,          \* Solve: local o (cursor over the forced row)
    stack,      \* Search: call stack of frames, innermost last
    covers,     \* history: columns covered and not yet uncovered, oldest first
    lifo,       \* history: every Uncover so far matched the innermost Cover
    last,       \* history: the last Cover/Uncover call
    collapsed,  \* history: ChooseCol has returned backtrack=false
    emitted     \* history: one record per terminal-success of Search

vars == <<matrix, headers, partial, g, heap, O, pc, todo, k, n, o, stack,
          covers, lifo, last, collapsed, emitted>>

----------------------------------------------------------------------------
(* Bounds of the model *)

MaxRows == 3
MaxCols == 3
MaxNodes == 4
MaxDigit == 2
MaxForced == 2
MaxRagged == 2
MaxSmall == 2
MaxItems == 3
MaxGivens == 2

(* ^uint(0): the all-ones value of Go's uint, capped at the largest integer
   the model checker represents.  Size-- on 0 wraps to it. *)
MaxUint == 2147483647

Nil == -1
RootId == 0

(* What a walk that never meets its end gives: the call does not return. *)
Hang == -2

NamePool == <<"A", "B", "C", "D", "E", "F", "G">>

----------------------------------------------------------------------------
(* Node primitives.  Size and Name stand for the fields of Meta; Row is
   bookkeeping, not a field of Node: the input row a data node was made for. *)

NewNode(id) ==
    [Right |-> id, Up |-> id, Left |-> id, Down |-> id, Col |-> Nil,
     Size |-> 0, Name |-> "", Row |-> 0]

NewColNode(id, s) == [NewNode(id) EXCEPT !.Name = s]

NewRoot ==
    [Right |-> RootId, Up |-> Nil, Left |-> RootId, Down |-> Nil, Col |-> Nil,
     Size |-> 0, Name |-> "root", Row |-> 0]

(* RowAppend that puts n after r, i.e. at the start of r's row *)
RowAppendAfter(h, r, x) ==
    LET h1 == [h EXCEPT ![x].Left = r]
        h2 == [h1 EXCEPT ![x].Right = h1[r].Right]
        h3 == [h2 EXCEPT ![h2[r].Right].Left = x]
    IN  [h3 EXCEPT ![r].Right = x]

(* r.RowAppend(n): n is put before r, i.e. at the end of r's row. *)
RowAppend(h, r, x) ==
    LET h1 == [h EXCEPT ![x].Right = r]
        h2 == [h1 EXCEPT ![x].Left = h1[r].Left]
        h3 == [h2 EXCEPT ![h2[r].Left].Right = x]
    IN  [h3 EXCEPT ![r].Left = x]

(* c.ColAppend(n): n is put above c, i.e. at the bottom of column c. *)
ColAppend(h, c, x) ==
    LET h1 == [h EXCEPT ![x].Col = c]
        h2 == [h1 EXCEPT ![x].Down = c]
        h3 == [h2 EXCEPT ![x].Up = h2[c].Up]
        h4 == [h3 EXCEPT ![h3[c].Up].Down = x]
        h5 == [h4 EXCEPT ![c].Up = x]
    IN  [h5 EXCEPT ![c].Size = @ + 1]

Inc(s) == IF s = MaxUint THEN 0 ELSE s + 1
Dec(s) == IF s = 0 THEN MaxUint ELSE s - 1

----------------------------------------------------------------------------
(* Cover / Uncover *)

(* Cover's inner loop without j.Up.Down = j.Down: a half unlink *)
RECURSIVE CoverRowHalf(_, _, _)
CoverRowHalf(h, i, j) ==
    IF j = i THEN h
    ELSE LET h1 == [h EXCEPT ![h[j].Down].Up = h[j].Up]
             h3 == [h1 EXCEPT ![h1[j].Col].Size = Dec(@)]
         IN  CoverRowHalf(h3, i, h3[j].Right)

RECURSIVE CoverRow(_, _, _)
CoverRow(h, i, j) ==
    IF j = i THEN h
    ELSE LET h1 == [h EXCEPT ![h[j].Down].Up = h[j].Up]
             h2 == [h1 EXCEPT ![h1[j].Up].Down = h1[j].Down]
             h3 == [h2 EXCEPT ![h2[j].Col].Size = Dec(@)]
         IN  CoverRow(h3, i, h3[j].Right)

(* Cover's outer loop that also counts c's own cell of each row off c *)
RECURSIVE CoverRowsOwnSize(_, _, _)
CoverRowsOwnSize(h, c, i) ==
    IF i = c THEN h
    ELSE LET h1 == CoverRow(h, i, h[i].Right)
             h2 == [h1 EXCEPT ![c].Size = Dec(@)]
         IN  CoverRowsOwnSize(h2, c, h2[i].Down)

RECURSIVE CoverRows(_, _, _)
CoverRows(h, c, i) ==
    IF i = c THEN h
    ELSE LET h1 == CoverRow(h, i, h[i].Right)
         IN  CoverRows(h1, c, h1[i].Down)

Cover(h, c) ==
    LET h1 == [h EXCEPT ![h[c].Right].Left = h[c].Left]
        h2 == [h1 EXCEPT ![h1[c].Left].Right = h1[c].Right]
    IN  CoverRows(h2, c, h2[c].Down)

(* Uncover that relinks the cells but forgets the Size++ *)
RECURSIVE UncoverRowNoSize(_, _, _)
UncoverRowNoSize(h, i, j) ==
    IF j = i THEN h
    ELSE LET h2 == [h EXCEPT ![h[j].Down].Up = j]
             h3 == [h2 EXCEPT ![h2[j].Up].Down = j]
         IN  UncoverRowNoSize(h3, i, h3[j].Left)

RECURSIVE UncoverRow(_, _, _)
UncoverRow(h, i, j) ==
    IF j = i THEN h
    ELSE LET h1 == [h EXCEPT ![h[j].Col].Size = Inc(@)]
             h2 == [h1 EXCEPT ![h1[j].Down].Up = j]
             h3 == [h2 EXCEPT ![h2[j].Up].Down = j]
         IN  UncoverRow(h3, i, h3[j].Left)

RECURSIVE UncoverRows(_, _, _)
UncoverRows(h, c, i) ==
    IF i = c THEN h
    ELSE LET h1 == UncoverRow(h, i, h[i].Left)
         IN  UncoverRows(h1, c, h1[i].Up)

(* Uncover that relinks the rows but not the header *)
UncoverRowsOnly(h, c) == UncoverRows(h, c, h[c].Up)

Uncover(h, c) ==
    LET h1 == UncoverRows(h, c, h[c].Up)
        h2 == [h1 EXCEPT ![h1[c].Right].Left = c]
    IN  [h2 EXCEPT ![h2[c].Left].Right = c]

----------------------------------------------------------------------------
(* NewSparseMatrix *)

(* One header per name, appended to the root's row in name order. *)
RECURSIVE AddHeaders(_, _, _)
AddHeaders(h, hs, idx) ==
    IF idx > Len(hs) THEN h
    ELSE AddHeaders(RowAppend(h @@ (idx :> NewColNode(idx, hs[idx])), RootId, idx),
                    hs, idx + 1)

(* matrix[i][j] panics (index out of range) when row i has no cell j. *)
RowReadable(mat, i, colCount) == colCount <= Len(mat[i])

(* The inner loop over j of one input row i; head = the j-th header,
   prev = the row's first node or Nil.  head is read at every step, as the
   loop does: it is never nil, the header row being circular. *)
RECURSIVE AddCells(_, _, _, _, _, _, _)
AddCells(h, mat, i, j, colCount, head, prev) ==
    IF j > colCount \/ head = Nil THEN h
    ELSE IF mat[i][j] > 0
         THEN LET id == Cardinality(DOMAIN h)
                  h0 == h @@ (id :> [NewNode(id) EXCEPT !.Row = i])
                  h1 == ColAppend(h0, head, id)
                  h2 == IF prev # Nil THEN RowAppend(h1, prev, id) ELSE h1
                  p2 == IF prev # Nil THEN prev ELSE id
              IN  AddCells(h2, mat, i, j + 1, colCount, h2[head].Right, p2)
         ELSE AddCells(h, mat, i, j + 1, colCount, h[head].Right, prev)

RECURSIVE AddRows(_, _, _, _)
AddRows(h, mat, i, colCount) ==
    IF i > Len(mat) THEN [ok |-> TRUE, heap |-> h]
    ELSE IF ~RowReadable(mat, i, colCount) THEN [ok |-> FALSE, heap |-> h]
    ELSE AddRows(AddCells(h, mat, i, 1, colCount, h[RootId].Right, Nil),
                 mat, i + 1, colCount)

NewSparseMatrix(mat, hs) ==
    AddRows(AddHeaders((RootId :> NewRoot), hs, 1), mat, 1, Len(hs))

----------------------------------------------------------------------------
(* SparseMatrix accessors *)

Root(h) == h[h[RootId].Left].Right

(* The nodes made for cells of the input: they have a column. *)
DataNodes(h) == {x \in DOMAIN h : h[x].Col # Nil}

(* The headers met walking Right from the root, in order. *)
RECURSIVE HeaderWalk(_, _, _)
HeaderWalk(h, root, col) ==
    IF col = root THEN <<>> ELSE <<col>> \o HeaderWalk(h, root, h[col].Right)

LiveCols(h) == HeaderWalk(h, Root(h), h[Root(h)].Right)

LiveSet(h) == {LiveCols(h)[x] : x \in DOMAIN LiveCols(h)}

(* The scan with <= for <: ties go to the rightmost column *)
RECURSIVE SmallestFromLast(_, _, _, _, _)
SmallestFromLast(h, root, col, r, min) ==
    IF col = root THEN r
    ELSE IF h[col].Size <= min
         THEN SmallestFromLast(h, root, h[col].Right, col, h[col].Size)
         ELSE SmallestFromLast(h, root, h[col].Right, r, min)

RECURSIVE SmallestFrom(_, _, _, _, _)
SmallestFrom(h, root, col, r, min) ==
    IF col = root THEN r
    ELSE IF h[col].Size < min
         THEN SmallestFrom(h, root, h[col].Right, col, h[col].Size)
         ELSE SmallestFrom(h, root, h[col].Right, r, min)

SmallestCol(h) == SmallestFrom(h, Root(h), h[Root(h)].Right, Nil, MaxUint)

(* Col that looks the name up among all headers ever built, linked or not *)
ColAnyHeader(h, name) ==
    IF \E c \in DOMAIN h : c # RootId /\ h[c].Col = Nil /\ h[c].Name = name
    THEN CHOOSE c \in DOMAIN h : c # RootId /\ h[c].Col = Nil /\ h[c].Name = name
    ELSE Nil

(* Col(name): the first live header of that name, or Nil for the panic. *)
RECURSIVE ColFrom(_, _, _, _)
ColFrom(h, root, col, name) ==
    IF col = root THEN Nil
    ELSE IF h[col].Name = name THEN col
    ELSE ColFrom(h, root, h[col].Right, name)

Col(h, name) == ColFrom(h, Root(h), h[Root(h)].Right, name)

----------------------------------------------------------------------------
(* Solution *)

(* Set that always appends, as if the Solution were a stack *)
SetAppendOnly(s, i, x) == Append(s, x)

Set(s, i, x) == IF i < Len(s) THEN [s EXCEPT ![i + 1] = x] ELSE Append(s, x)

Get(s, i) == s[i + 1]

(* The names of a row, walking Right from m until x is met again. *)
RECURSIVE RowNames(_, _, _)
RowNames(h, x, m) ==
    IF x = m THEN <<>> ELSE <<h[h[m].Col].Name>> \o RowNames(h, x, h[m].Right)

(* String(): one line per item; a line is the sequence of names that the
   code joins with single spaces and ends with a newline. *)
RECURSIVE String(_, _)
String(h, s) ==
    IF s = <<>> THEN <<>>
    ELSE LET x == Head(s)
         IN  (IF x # Nil
              THEN << <<h[h[x].Col].Name>> \o RowNames(h, x, h[x].Right) >>
              ELSE <<>>) \o String(h, Tail(s))

----------------------------------------------------------------------------
(* Guesser *)

(* Solver.ChooseCol: the smallest column, always backtrack. *)
SolverChooseCol(h, depth) == <<SmallestCol(h), TRUE>>

(* for col := root.Right; col != root; col = col.Right ends: the walk meets
   the root again within as many steps as there are nodes. *)
RECURSIVE WalkEnds(_, _, _, _)
WalkEnds(h, root, col, fuel) ==
    IF col = root THEN TRUE
    ELSE IF fuel = 0 THEN FALSE
    ELSE WalkEnds(h, root, h[col].Right, fuel - 1)

HeaderRowEnds(h) == WalkEnds(h, Root(h), h[Root(h)].Right, Cardinality(DOMAIN h))

(* The choices ChooseCol(depth) may return: the Solver's own policy; any
   other implementation of the interface that returns a live column and
   always backtracks; and the Solver's column with backtrack=false always
   ("Collapse") or with a flag of the implementation's choosing at each call
   ("Flagged"), where the scan of SmallestCol may not end. *)
ChooseCol(guesser, h, depth) ==
    CASE guesser = "Solver"   -> {SolverChooseCol(h, depth)}
      [] guesser = "Live"     -> {<<c, TRUE>> : c \in LiveSet(h)}
      [] guesser = "Collapse" -> IF HeaderRowEnds(h)
                                 THEN {<<SmallestCol(h), FALSE>>}
                                 ELSE {<<Hang, FALSE>>}
      [] OTHER                -> IF HeaderRowEnds(h)
                                 THEN {<<SmallestCol(h), bt>> : bt \in BOOLEAN}
                                 ELSE {<<Hang, TRUE>>}

----------------------------------------------------------------------------
(* History bookkeeping of Cover/Uncover calls *)

LogCoverCall(c) ==
    /\ covers' = Append(covers, c)
    /\ lifo' = (lifo /\ \A x \in DOMAIN covers : covers[x] # c)
    /\ last' = [op |-> "cover", col |-> c, direct |-> FALSE, before |-> heap]

LogCover(c) == LogCoverCall(c) /\ UNCHANGED collapsed

(* The Cover of the column ChooseCol returned together with bt. *)
LogChoice(c, bt) == LogCoverCall(c) /\ collapsed' = (collapsed \/ ~bt)

(* covers without its last entry for c, if it has one. *)
RECURSIVE DropLast(_, _)
DropLast(s, c) ==
    IF s = <<>> THEN s
    ELSE IF s[Len(s)] = c THEN SubSeq(s, 1, Len(s) - 1)
    ELSE Append(DropLast(SubSeq(s, 1, Len(s) - 1), c), s[Len(s)])

LogUncover(c) ==
    /\ covers' = DropLast(covers, c)
    /\ lifo' = (lifo /\ covers # <<>> /\ covers[Len(covers)] = c)
    /\ last' = [op |-> "uncover", col |-> c,
                direct |-> (last.op = "cover" /\ last.col = c),
                before |-> last.before]
    /\ UNCHANGED collapsed

NoLog == UNCHANGED <<covers, lifo, last, collapsed>>

----------------------------------------------------------------------------
(* Search: one frame per call, innermost last.  A frame holds the call's
   locals k, c, bt, r, j and its position; entry is bookkeeping: the arena
   as it was when the call began. *)

Frame(depth, h) ==
    [k |-> depth, c |-> Nil, bt |-> TRUE, r |-> Nil, j |-> Nil, pc |-> "enter",
     entry |-> h]

Top == stack[Len(stack)]

SetTop(f) == [stack EXCEPT ![Len(stack)] = f]

Searching == pc = "search" /\ stack # <<>>

(* root.Right == root: terminal success, the Solution is printed. *)
SearchEmit ==
    /\ Searching /\ Top.pc = "enter"
    /\ heap[Root(heap)].Right = Root(heap)
    /\ emitted' = Append(emitted, [k |-> Top.k, O |-> O, out |-> String(heap, O)])
    /\ stack' = SetTop([Top EXCEPT !.pc = "exit"])
    /\ NoLog
    /\ UNCHANGED <<matrix, headers, partial, g, heap, O, pc, todo, k, n, o>>

(* c, bt := g.ChooseCol(k); c.Cover(); r := c.Down -- a nil c, or the root
   returned as a column (it has no Down), is a nil dereference *)
SearchChoose ==
    /\ Searching /\ Top.pc = "enter"
    /\ heap[Root(heap)].Right # Root(heap)
    /\ \E ch \in ChooseCol(g, heap, Top.k) :
          IF ch[1] = Hang
          THEN /\ pc' = "hang"
               /\ NoLog
               /\ UNCHANGED <<heap, stack>>
          ELSE IF ch[1] = Nil \/ heap[ch[1]].Down = Nil
          THEN /\ pc' = "panic"
               /\ NoLog
               /\ UNCHANGED <<heap, stack>>
          ELSE /\ heap' = Cover(heap, ch[1])
               /\ stack' = SetTop([Top EXCEPT !.c = ch[1], !.bt = ch[2],
                                              !.r = heap'[ch[1]].Down,
                                              !.pc = "rows"])
               /\ LogChoice(ch[1], ch[2])
               /\ pc' = pc
    /\ UNCHANGED <<matrix, headers, partial, g, O, todo, k, n, o, emitted>>

(* loop test r != c holds: O.Set(k, r); j := r.Right *)
SearchRow ==
    /\ Searching /\ Top.pc = "rows" /\ Top.r # Top.c
    /\ O' = Set(O, Top.k, Top.r)
    /\ stack' = SetTop([Top EXCEPT !.j = heap[Top.r].Right, !.pc = "coverRow"])
    /\ NoLog
    /\ UNCHANGED <<matrix, headers, partial, g, heap, pc, todo, k, n, o, emitted>>

(* j.Col.Cover(); j = j.Right *)
SearchCoverRow ==
    /\ Searching /\ Top.pc = "coverRow" /\ Top.j # Top.r
    /\ heap' = Cover(heap, heap[Top.j].Col)
    /\ stack' = SetTop([Top EXCEPT !.j = heap'[Top.j].Right])
    /\ LogCover(heap[Top.j].Col)
    /\ UNCHANGED <<matrix, headers, partial, g, O, pc, todo, k, n, o, emitted>>

(* m.Search(O, k+1, g) *)
SearchRecurse ==
    /\ Searching /\ Top.pc = "coverRow" /\ Top.j = Top.r
    /\ stack' = Append(SetTop([Top EXCEPT !.pc = "after"]), Frame(Top.k + 1, heap))
    /\ NoLog
    /\ UNCHANGED <<matrix, headers, partial, g, heap, O, pc, todo, k, n, o, emitted>>

(* The undo walk starting at r.Right, the direction of the cover walk *)
UndoWalkRight(h, x) == h[x].Right

(* for j := r.Left; j != r; j = j.Left: the row is undone right to left *)
UndoWalk(h, x) == h[x].Left

(* The step after the recursive call without the test of bt *)
SearchAfterAlways ==
    /\ Searching /\ Top.pc = "after"
    /\ stack' = LET r2 == Get(O, Top.k)
                IN  SetTop([Top EXCEPT !.r = r2, !.c = heap[r2].Col,
                                       !.j = UndoWalk(heap, r2),
                                       !.pc = "uncoverRow"])
    /\ NoLog
    /\ UNCHANGED <<matrix, headers, partial, g, heap, O, pc, todo, k, n, o, emitted>>

(* if !bt { return }; r = O.Get(k); c = r.Col; j := r.Left *)
SearchAfter ==
    /\ Searching /\ Top.pc = "after"
    /\ stack' = IF ~Top.bt
                THEN SetTop([Top EXCEPT !.pc = "exit"])
                ELSE LET r2 == Get(O, Top.k)
                     IN  SetTop([Top EXCEPT !.r = r2, !.c = heap[r2].Col,
                                            !.j = UndoWalk(heap, r2),
                                            !.pc = "uncoverRow"])
    /\ NoLog
    /\ UNCHANGED <<matrix, headers, partial, g, heap, O, pc, todo, k, n, o, emitted>>

(* j.Col.Uncover(); j = j.Left *)
SearchUncoverRow ==
    /\ Searching /\ Top.pc = "uncoverRow" /\ Top.j # Top.r
    /\ heap' = Uncover(heap, heap[Top.j].Col)
    /\ stack' = SetTop([Top EXCEPT !.j = UndoWalk(heap', Top.j)])
    /\ LogUncover(heap[Top.j].Col)
    /\ UNCHANGED <<matrix, headers, partial, g, O, pc, todo, k, n, o, emitted>>

(* The loop's post statement left out: the same row is tried again *)
SearchNextRowStay ==
    /\ Searching /\ Top.pc = "uncoverRow" /\ Top.j = Top.r
    /\ stack' = SetTop([Top EXCEPT !.pc = "rows"])
    /\ NoLog
    /\ UNCHANGED <<matrix, headers, partial, g, heap, O, pc, todo, k, n, o, emitted>>

(* the loop's post statement r = r.Down *)
SearchNextRow ==
    /\ Searching /\ Top.pc = "uncoverRow" /\ Top.j = Top.r
    /\ stack' = SetTop([Top EXCEPT !.r = heap[Top.r].Down, !.pc = "rows"])
    /\ NoLog
    /\ UNCHANGED <<matrix, headers, partial, g, heap, O, pc, todo, k, n, o, emitted>>

(* loop test r != c fails: c.Uncover() *)
SearchUncoverCol ==
    /\ Searching /\ Top.pc = "rows" /\ Top.r = Top.c
    /\ heap' = Uncover(heap, Top.c)
    /\ stack' = SetTop([Top EXCEPT !.pc = "exit"])
    /\ LogUncover(Top.c)
    /\ UNCHANGED <<matrix, headers, partial, g, O, pc, todo, k, n, o, emitted>>

(* the call returns to its caller; the outermost one returns to Solve *)
SearchReturn ==
    /\ Searching /\ Top.pc = "exit"
    /\ stack' = SubSeq(stack, 1, Len(stack) - 1)
    /\ pc' = IF Len(stack) = 1 THEN "returned" ELSE pc
    /\ NoLog
    /\ UNCHANGED <<matrix, headers, partial, g, heap, O, todo, k, n, o, emitted>>

Search ==
    \/ SearchEmit
    \/ SearchChoose
    \/ SearchRow
    \/ SearchCoverRow
    \/ SearchRecurse
    \/ SearchAfter
    \/ SearchUncoverRow
    \/ SearchNextRow
    \/ SearchUncoverCol
    \/ SearchReturn

----------------------------------------------------------------------------
(* Solve: the forced rows of `partial` are committed, then Search runs *)

(* The keys sorted the other way round, smallest first *)
RECURSIVE KeysAscending(_)
KeysAscending(S) ==
    IF S = {} THEN <<>>
    ELSE LET m == CHOOSE x \in S : \A y \in S : x <= y
         IN  <<m>> \o KeysAscending(S \ {m})

(* sort.Sort(sort.Reverse(sort.IntSlice(keys))) *)
RECURSIVE KeysDescending(_)
KeysDescending(S) ==
    IF S = {} THEN <<>>
    ELSE LET m == CHOOSE x \in S : \A y \in S : y <= x
         IN  <<m>> \o KeysDescending(S \ {m})

RECURSIVE ForcedCells(_, _)
ForcedCells(p, keys) ==
    IF keys = <<>> THEN <<>>
    ELSE [x \in DOMAIN p[Head(keys)] |-> <<Head(keys), p[Head(keys)][x]>>]
         \o ForcedCells(p, Tail(keys))

(* for j := 0; j < digit; j++ { n = n.Down } *)
RECURSIVE DownBy(_, _, _)
DownBy(h, x, digit) == IF digit <= 0 THEN x ELSE DownBy(h, h[x].Down, digit - 1)

(* n := m.Col(c); n.Cover(); walk down; O.Set(k, n); o := n.Right *)
SolveForce ==
    /\ pc = "solve" /\ todo # <<>>
    /\ LET digit == Head(todo)[1]
           c == Head(todo)[2]
           n0 == Col(heap, c)
       IN  IF n0 = Nil
           THEN /\ pc' = "panic"
                /\ NoLog
                /\ UNCHANGED <<heap, O, n, o>>
           ELSE /\ heap' = Cover(heap, n0)
                /\ n' = DownBy(heap', n0, digit)
                /\ O' = Set(O, k, n')
                /\ o' = heap'[n'].Right
                /\ pc' = "forceRow"
                /\ LogCover(n0)
    /\ UNCHANGED <<matrix, headers, partial, g, todo, k, stack, emitted>>

(* The walk over the forced row that covers none of its columns *)
SolveForceRowSkip ==
    /\ pc = "forceRow" /\ o # n
    /\ o' = heap[o].Right
    /\ NoLog
    /\ UNCHANGED <<matrix, headers, partial, g, heap, O, pc, todo, k, n, stack,
                   emitted>>

(* o.Col.Cover(); o = o.Right -- a header has no Col: nil dereference *)
SolveForceRow ==
    /\ pc = "forceRow" /\ o # n
    /\ IF heap[o].Col = Nil
       THEN /\ pc' = "panic"
            /\ NoLog
            /\ UNCHANGED <<heap, o>>
       ELSE /\ heap' = Cover(heap, heap[o].Col)
            /\ o' = heap'[o].Right
            /\ pc' = pc
            /\ LogCover(heap[o].Col)
    /\ UNCHANGED <<matrix, headers, partial, g, O, todo, k, n, stack, emitted>>

(* k++ and on to the next forced cell *)
SolveForceNext ==
    /\ pc = "forceRow" /\ o = n
    /\ k' = k + 1
    /\ todo' = Tail(todo)
    /\ pc' = "solve"
    /\ NoLog
    /\ UNCHANGED <<matrix, headers, partial, g, heap, O, n, o, stack, emitted>>

(* s.matrix.Search(O, k, s) *)
SolveSearch ==
    /\ pc = "solve" /\ todo = <<>>
    /\ stack' = <<Frame(k, heap)>>
    /\ pc' = "search"
    /\ NoLog
    /\ UNCHANGED <<matrix, headers, partial, g, heap, O, todo, k, n, o, emitted>>

Solve ==
    \/ SolveForce
    \/ SolveForceRow
    \/ SolveForceNext
    \/ SolveSearch

----------------------------------------------------------------------------
(* Direct calls of the exported Cover and Uncover, properly nested *)

CoverCall ==
    /\ pc = "ops"
    /\ \E c \in LiveSet(heap) :
          /\ heap' = Cover(heap, c)
          /\ LogCover(c)
    /\ UNCHANGED <<matrix, headers, partial, g, O, pc, todo, k, n, o, stack, emitted>>

UncoverCall ==
    /\ pc = "ops" /\ covers # <<>>
    /\ heap' = Uncover(heap, covers[Len(covers)])
    /\ LogUncover(covers[Len(covers)])
    /\ UNCHANGED <<matrix, headers, partial, g, O, pc, todo, k, n, o, stack, emitted>>

Ops == CoverCall \/ UncoverCall

----------------------------------------------------------------------------
(* Direct calls of the exported Set and Get of a Solution: O.Set(i, x), then
   O.Get(i) with the same index.  k and n hold the arguments, o the result. *)

SetCall ==
    /\ pc = "solution"
    /\ \E i \in 0..MaxItems, x \in DataNodes(heap) \cup {Nil} :
          /\ i < Len(O) \/ Len(O) < MaxItems
          /\ O' = Set(O, i, x)
          /\ k' = i
          /\ n' = x
    /\ pc' = "set"
    /\ NoLog
    /\ UNCHANGED <<matrix, headers, partial, g, heap, todo, o, stack, emitted>>

(* s.items[i] panics (index out of range) when i is not below len(s.items) *)
GetCall ==
    /\ pc = "set"
    /\ IF k < Len(O)
       THEN /\ o' = Get(O, k)
            /\ pc' = "solution"
       ELSE /\ o' = o
            /\ pc' = "panic"
    /\ NoLog
    /\ UNCHANGED <<matrix, headers, partial, g, heap, O, todo, k, n, stack, emitted>>

SolutionCalls == SetCall \/ GetCall

----------------------------------------------------------------------------
(* NewSparseMatrix on unchecked input *)

Build ==
    /\ pc = "new"
    /\ LET res == NewSparseMatrix(matrix, headers)
       IN  IF res.ok
           THEN /\ heap' = res.heap
                /\ pc' = "built"
           ELSE /\ heap' = heap
                /\ pc' = "panic"
    /\ last' = [last EXCEPT !.before = heap']
    /\ UNCHANGED <<matrix, headers, partial, g, O, todo, k, n, o, stack, covers,
                   lifo, collapsed, emitted>>

----------------------------------------------------------------------------
(* Inputs *)

Names(count) == SubSeq(NamePool, 1, count)

Cells == {0, 1}

RECURSIVE Sum(_, _)
Sum(f, S) ==
    IF S = {} THEN 0
    ELSE LET x == CHOOSE y \in S : TRUE IN f[x] + Sum(f, S \ {x})

(* The number of data nodes NewSparseMatrix creates for a matrix. *)
NodeCount(mat) ==
    Sum([i \in DOMAIN mat |-> Cardinality({c \in DOMAIN mat[i] : mat[i][c] > 0})],
        DOMAIN mat)

(* Rectangular matrices of MaxRows rows and up to MaxCols columns that make
   at most MaxNodes data nodes. *)
Matrices ==
    {mat \in UNION {[1..MaxRows -> [1..w -> Cells]] : w \in 0..MaxCols} :
        NodeCount(mat) <= MaxNodes}

(* The example of Knuth's paper, used by TestSolve. *)
Knuth ==
    << <<0, 0, 1, 0, 1, 1, 0>>,
       <<1, 0, 0, 1, 0, 0, 1>>,
       <<0, 1, 1, 0, 0, 1, 0>>,
       <<1, 0, 0, 1, 0, 0, 0>>,
       <<0, 1, 0, 0, 0, 0, 1>>,
       <<0, 0, 0, 1, 1, 0, 1>> >>

Width(mat) == IF mat = <<>> THEN 0 ELSE Len(mat[1])

NameLists ==
    UNION {[1..l -> {NamePool[x] : x \in 1..MaxCols}] : l \in 1..MaxForced}

Partials ==
    {p \in UNION {[D -> NameLists] : D \in SUBSET (1..MaxDigit)} :
        Sum([d \in DOMAIN p |-> Len(p[d])], DOMAIN p) <= MaxForced}

NoPartial == [d \in {} |-> <<>>]

Guessers == {"Solver", "Live"}

InitWith(mat, hs, p, guesser, where) ==
    /\ matrix = mat
    /\ headers = hs
    /\ partial = p
    /\ g = guesser
    /\ heap = NewSparseMatrix(mat, hs).heap
    /\ O = <<>>
    /\ pc = where
    /\ todo = ForcedCells(p, KeysDescending(DOMAIN p))
    /\ k = 0
    /\ n = Nil
    /\ o = Nil
    /\ stack = IF where = "search" THEN <<Frame(0, heap)>> ELSE <<>>
    /\ covers = <<>>
    /\ lifo = TRUE
    /\ last = [op |-> "none", col |-> Nil, direct |-> FALSE, before |-> heap]
    /\ collapsed = FALSE
    /\ emitted = <<>>

(* NewSolver(m, h).Solve(partial) *)
InitSolve ==
    \E mat \in Matrices \cup {Knuth}, p \in Partials :
        InitWith(mat, Names(Width(mat)), p, "Solver", "solve")

(* NewSparseMatrix(m, h).Search(O, 0, g) with any Guesser *)
InitSearch ==
    \E mat \in Matrices \cup {Knuth}, guesser \in Guessers :
        InitWith(mat, Names(Width(mat)), NoPartial, guesser, "search")

Init == InitSearch

Spec == Init /\ [][Search]_vars

Next == Solve \/ Search

SpecSolve == InitSolve /\ [][Next]_vars

(* NewSparseMatrix(m, h).Search(O, 0, solver): the call runs to its end, no
   step of it waits for anything. *)
InitDefault ==
    \E mat \in Matrices \cup {Knuth} :
        InitWith(mat, Names(Width(mat)), NoPartial, "Solver", "search")

SpecDefault == InitDefault /\ [][Search]_vars /\ WF_vars(Search)

(* NewSparseMatrix(m, h).Search(O, 0, g) with a Guesser that chooses as the
   Solver does and may signal backtrack=false *)
InitGuess ==
    \E mat \in Matrices, guesser \in {"Flagged", "Collapse"} :
        InitWith(mat, Names(Width(mat)), NoPartial, guesser, "search")

SpecGuess == InitGuess /\ [][Search]_vars

(* Matrices of up to MaxSmall rows and up to MaxSmall columns. *)
SmallMatrices ==
    UNION {[1..r -> [1..w -> Cells]] : r \in 0..MaxSmall, w \in 0..MaxSmall}

(* NewSolver(m, h).Solve(partial) on the small matrices *)
InitForced ==
    \E mat \in SmallMatrices, p \in Partials :
        InitWith(mat, Names(Width(mat)), p, "Solver", "solve")

SpecForced == InitForced /\ [][Next]_vars

----------------------------------------------------------------------------
(* Sudoku: the constraint matrix of a grid of SudokuDim x SudokuDim cells and
   the partial assignment made from the given digits.  A name made by
   Sprintf is the sequence of its parts: "%v,%v" of x and y is <<x, ",", y>>.
   SudokuDim is a square: for other values the block index leaves the row. *)

SudokuDim == 4

(* int(math.Sqrt(float64(dim))) *)
Sdim == CHOOSE x \in 0..SudokuDim : x * x <= SudokuDim /\ SudokuDim < (x + 1) * (x + 1)

Bdim == SudokuDim * SudokuDim

SudokuHeaders ==
    [x \in 1..(4 * Bdim) |->
        LET i == x - 1
            j == i % Bdim
        IN  IF i < Bdim THEN <<i \div SudokuDim, ",", i % SudokuDim>>
            ELSE IF i < 2 * Bdim THEN <<(j % SudokuDim) + 1, "r", j \div SudokuDim>>
            ELSE IF i < 3 * Bdim THEN <<(j % SudokuDim) + 1, "c", j \div SudokuDim>>
            ELSE <<(j % SudokuDim) + 1, "b", j \div SudokuDim>>]

(* The four cells row i (counted from 0) sets to its digit, counted from 0. *)
SudokuCells(i) ==
    LET dcell == i \div SudokuDim
        drow == i \div Bdim
        dcol == (i \div SudokuDim) % SudokuDim
        dblock == (drow \div Sdim) * Sdim + (dcol \div Sdim)
    IN  {dcell,
         Bdim + drow * SudokuDim + (i % SudokuDim),
         Bdim + Bdim + (i % Bdim),
         Bdim + Bdim + Bdim + dblock * SudokuDim + (i % SudokuDim)}

SudokuMatrix ==
    [x \in 1..(Bdim * SudokuDim) |->
        [y \in 1..(4 * Bdim) |->
            IF (y - 1) \in SudokuCells(x - 1) THEN ((x - 1) % SudokuDim) + 1 ELSE 0]]

(* The cells of a grid in the order of the loops over i and j. *)
GridCells ==
    [x \in 1..Bdim |-> <<(x - 1) \div SudokuDim, (x - 1) % SudokuDim>>]

(* gridToCover: digit => names of the existence columns of its cells *)
GridToCover(sudoku) ==
    LET At(c) == sudoku[c[1] + 1][c[2] + 1]
        Of(d) == LET Has(c) == At(c) = d
                     cs == SelectSeq(GridCells, Has)
                 IN  [x \in DOMAIN cs |-> <<cs[x][1], ",", cs[x][2]>>]
    IN  [d \in {At(GridCells[x]) : x \in DOMAIN GridCells} \ {0} |-> Of(d)]

(* Sets of at most count givens <<cell, digit>>, one per cell at most. *)
RECURSIVE GivenSets(_)
GivenSets(count) ==
    IF count = 0 THEN {{}}
    ELSE LET less == GivenSets(count - 1)
         IN  less \cup
             {S \cup {<<c, d>>} :
                 S \in less,
                 c \in {GridCells[x] : x \in DOMAIN GridCells} ,
                 d \in 1..SudokuDim}

Grids ==
    {[x \in 1..SudokuDim |-> [y \in 1..SudokuDim |->
         IF \E e \in S : e[1] = <<x - 1, y - 1>>
         THEN (CHOOSE e \in S : e[1] = <<x - 1, y - 1>>)[2]
         ELSE 0]] :
     S \in {T \in GivenSets(MaxGivens) : \A e, f \in T : e[1] = f[1] => e = f}}

(* NewSudokuSolver(dim): NewSparseMatrix starts from the root alone; the
   headers and then the rows follow one by one, k counting those done. *)
InitSudoku ==
    /\ matrix = SudokuMatrix
    /\ headers = SudokuHeaders
    /\ partial = NoPartial
    /\ g = "Solver"
    /\ heap = (RootId :> NewRoot)
    /\ O = <<>>
    /\ pc = "headers"
    /\ todo = <<>>
    /\ k = 0
    /\ n = Nil
    /\ o = Nil
    /\ stack = <<>>
    /\ covers = <<>>
    /\ lifo = TRUE
    /\ last = [op |-> "none", col |-> Nil, direct |-> FALSE, before |-> <<>>]
    /\ collapsed = FALSE
    /\ emitted = <<>>

(* One round of NewSparseMatrix's loop over the names: the step of
   AddHeaders.  After the last name the loop over the rows begins. *)
BuildHeader ==
    /\ pc = "headers" /\ k < Len(headers)
    /\ heap' = RowAppend(heap @@ ((k + 1) :> NewColNode(k + 1, headers[k + 1])),
                         RootId, k + 1)
    /\ k' = IF k + 1 = Len(headers) THEN 0 ELSE k + 1
    /\ pc' = IF k + 1 = Len(headers) THEN "rows" ELSE pc
    /\ NoLog
    /\ UNCHANGED <<matrix, headers, partial, g, O, todo, n, o, stack, emitted>>

(* One round of NewSparseMatrix's loop over the input rows. *)
BuildRow ==
    /\ pc = "rows" /\ k < Len(matrix)
    /\ heap' = AddCells(heap, matrix, k + 1, 1, Len(headers), heap[RootId].Right, Nil)
    /\ k' = k + 1
    /\ NoLog
    /\ UNCHANGED <<matrix, headers, partial, g, O, pc, todo, n, o, stack, emitted>>

(* SudokuSolver.Solve(sudoku): partial := gridToCover(sudoku), the keys are
   sorted from biggest to smallest, k := 0 *)
SudokuSolve ==
    /\ pc = "rows" /\ k = Len(matrix)
    /\ \E sudoku \in Grids :
          /\ partial' = GridToCover(sudoku)
          /\ todo' = ForcedCells(partial', KeysDescending(DOMAIN partial'))
    /\ k' = 0
    /\ pc' = "solve"
    /\ NoLog
    /\ UNCHANGED <<matrix, headers, g, heap, O, n, o, stack, emitted>>

Sudoku == BuildHeader \/ BuildRow \/ SudokuSolve \/ Solve

SpecSudoku == InitSudoku /\ [][Sudoku]_vars

(* NewSolution(), then Set and Get calls with nodes of a built matrix *)
InitSolution ==
    \E mat \in SmallMatrices :
        InitWith(mat, Names(Width(mat)), NoPartial, "Solver", "solution")

SpecSolution == InitSolution /\ [][SolutionCalls]_vars

(* NewSparseMatrix(m, h), then nested Cover/Uncover calls *)
InitOps ==
    \E mat \in Matrices :
        InitWith(mat, Names(Width(mat)), NoPartial, "Solver", "ops")

SpecOps == InitOps /\ [][Ops]_vars

(* NewSparseMatrix(m, h) on input that need not be rectangular *)
Ragged ==
    UNION {[1..r -> UNION {[1..w -> Cells] : w \in 0..MaxCols}] : r \in 0..MaxRagged}

InitBuild ==
    /\ matrix \in Ragged
    /\ headers \in {Names(c) : c \in 0..MaxCols}
    /\ partial = NoPartial
    /\ g = "Solver"
    /\ heap = (RootId :> NewRoot)
    /\ O = <<>>
    /\ pc = "new"
    /\ todo = <<>>
    /\ k = 0
    /\ n = Nil
    /\ o = Nil
    /\ stack = <<>>
    /\ covers = <<>>
    /\ lifo = TRUE
    /\ last = [op |-> "none", col |-> Nil, direct |-> FALSE, before |-> heap]
    /\ collapsed = FALSE
    /\ emitted = <<>>

SpecBuild == InitBuild /\ [][Build]_vars

----------------------------------------------------------------------------
(* Vocabulary of the properties *)

Range(s) == {s[x] : x \in DOMAIN s}

Headers(h) == {c \in DOMAIN h : c # RootId /\ h[c].Col = Nil}

(* Columns covered and not yet uncovered, by the history of the calls. *)
Covered == Range(covers)

----------------------------------------------------------------------------
(* C1: Cover(c) directly followed by Uncover(c) leaves every node's Left,
   Right, Up and Down link and every column's Size as before the Cover. *)
C1_CoverUncoverRestores ==
    (last.op = "uncover" /\ last.direct) => heap = last.before

(* A Cover/Uncover pair has run on a column with a row that crosses another
   column, so links and sizes of other columns were changed and restored. *)
C1_Witness ==
    /\ last.op = "uncover" /\ last.direct
    /\ \E x \in DataNodes(heap) : heap[x].Col = last.col /\ heap[x].Right # x

----------------------------------------------------------------------------
(* C9: NewSparseMatrix never returns a matrix when the number of names
   differs from the width of a row or the rows differ in length. *)
Mismatch ==
    \/ \E i \in DOMAIN matrix : Len(matrix[i]) # Len(headers)
    \/ \E i, i2 \in DOMAIN matrix : Len(matrix[i]) # Len(matrix[i2])

C9_BuildFailsOnMismatch == pc = "built" => ~Mismatch

----------------------------------------------------------------------------
(* C10: Col(name) returns a header of that name that is linked in the header
   row, or panics; it panics for a name that is no column and for the name
   of a covered column; it never returns the root or a covered column. *)
QueryNames == {NamePool[x] : x \in 1..(MaxCols + 1)} \cup {"root"}

C10_ColLooksUpLiveColumns ==
    \A name \in QueryNames :
        LET c == Col(heap, name)
        IN  /\ c # Nil => /\ c \in Headers(heap)
                          /\ heap[c].Name = name
                          /\ c \notin Covered
            /\ name \notin Range(headers) => c = Nil
            /\ (\E x \in Covered : heap[x].Name = name) => c = Nil

(* One column is covered and its name is no longer found, while another
   column is still found. *)
C10_Witness ==
    /\ pc = "ops"
    /\ \E x \in Covered : Col(heap, heap[x].Name) = Nil
    /\ \E name \in Range(headers) : Col(heap, name) # Nil

----------------------------------------------------------------------------
(* Exact covers of the input matrix *)

RowIds == 1..Len(matrix)

ColIds == 1..Len(headers)

ZeroRow(i) == \A c \in ColIds : matrix[i][c] = 0

(* Every column has a nonzero cell in exactly one row of S. *)
IsExactCover(S) ==
    \A c \in ColIds : Cardinality({i \in S : matrix[i][c] > 0}) = 1

(* The input rows of the first depth entries of a Solution. *)
RowsOf(s, depth) == {heap[s[x]].Row : x \in 1..depth}

(* The first depth entries are data nodes of different rows and these rows
   are an exact cover. *)
CoverAt(s, depth) ==
    /\ depth <= Len(s)
    /\ \A x \in 1..depth : s[x] \in DataNodes(heap)
    /\ Cardinality(RowsOf(s, depth)) = depth
    /\ IsExactCover(RowsOf(s, depth))

Emissions(S) == {x \in DOMAIN emitted : RowsOf(emitted[x].O, emitted[x].k) = S}

DefaultSearch == g = "Solver" /\ partial = NoPartial

----------------------------------------------------------------------------
(* C2, as stated: with the default Guesser, Search from depth 0 emits only
   exact covers, and every set of rows that is an exact cover is emitted
   exactly once. *)
C2_EveryCoverEmittedOnce ==
    DefaultSearch =>
        /\ \A x \in DOMAIN emitted : CoverAt(emitted[x].O, emitted[x].k)
        /\ pc = "returned" =>
              \A S \in SUBSET RowIds :
                  IsExactCover(S) => Cardinality(Emissions(S)) = 1

(* C2, amended: with the default Guesser, Search from depth 0 emits only
   exact covers, and every exact cover made of rows that have a nonzero cell
   is emitted exactly once; a set holding an all-zero row is never emitted. *)
C2_EveryNodeCoverEmittedOnce ==
    DefaultSearch =>
        /\ \A x \in DOMAIN emitted : CoverAt(emitted[x].O, emitted[x].k)
        /\ pc = "returned" =>
              \A S \in SUBSET RowIds :
                  IF IsExactCover(S) /\ \A i \in S : ~ZeroRow(i)
                  THEN Cardinality(Emissions(S)) = 1
                  ELSE Emissions(S) = {}

(* A default run has returned after emitting two different covers. *)
C2_Witness ==
    /\ DefaultSearch /\ pc = "returned"
    /\ Len(emitted) >= 2
    /\ \E S \in SUBSET RowIds : S # {} /\ Emissions(S) # {}

----------------------------------------------------------------------------
(* C3: on Knuth's matrix the default exhaustive Search emits exactly one
   solution, rendered as the three lines "A D", "E F C", "B G". *)
KnuthLines == << <<"A", "D">>, <<"E", "F", "C">>, <<"B", "G">> >>

C3_KnuthSolution ==
    (matrix = Knuth /\ DefaultSearch) =>
        /\ Len(emitted) <= 1
        /\ \A x \in DOMAIN emitted : emitted[x].out = KnuthLines
        /\ pc = "returned" => Len(emitted) = 1

(* The run on Knuth's matrix has returned with its emission. *)
C3_Witness ==
    /\ matrix = Knuth /\ DefaultSearch /\ pc = "returned"
    /\ Len(emitted) = 1

----------------------------------------------------------------------------
(* C4: with a Guesser that returns a live column and backtrack=true, a call
   of Search returns with every link and every Size as when it began. *)
Backtracking == g \in {"Solver", "Live"}

C4_SearchRestoresMatrix ==
    (Backtracking /\ stack # <<>> /\ Top.pc = "exit") => heap = Top.entry

(* A call that covered a column with rows, and in whose subtree a solution
   was found, is about to return. *)
C4_Witness ==
    /\ Backtracking /\ stack # <<>> /\ Top.pc = "exit"
    /\ Top.c # Nil /\ heap[Top.c].Size > 0
    /\ \E x \in DOMAIN emitted : emitted[x].k > Top.k

----------------------------------------------------------------------------
(* C5: with a backtracking Guesser every Uncover(x) is issued when x is the
   innermost column still covered, and no covered column is covered again. *)
C5_StrictNesting == Backtracking => lifo

(* A row of three cells has been undone: three covers are nested and the
   search has uncovered again. *)
C5_Witness ==
    /\ Backtracking /\ pc = "search"
    /\ last.op = "uncover" /\ Len(covers) >= 2

----------------------------------------------------------------------------
(* C6 *)
RightLeft(h, x) == h[h[x].Right].Left = x /\ h[h[x].Left].Right = x

DownUp(h, x) ==
    /\ h[x].Down # Nil /\ h[x].Up # Nil
    /\ h[h[x].Down].Up = x /\ h[h[x].Up].Down = x

(* The nodes met walking Down from x until c is met. *)
RECURSIVE DownWalk(_, _, _)
DownWalk(h, c, x) == IF x = c THEN {} ELSE {x} \cup DownWalk(h, c, h[x].Down)

(* A data node still linked in the list of its column. *)
InColumn(h, x) == x \in DownWalk(h, h[x].Col, h[h[x].Col].Down)

(* C6, as stated: outside Cover and Uncover every node, also of a covered
   column or row, has n.Right.Left = n.Left.Right = n.Down.Up = n.Up.Down = n
   (the root, which has no Up and Down, is left out of the vertical part). *)
C6_EveryNodeLinked ==
    Backtracking =>
        \A x \in DOMAIN heap :
            /\ RightLeft(heap, x)
            /\ x # RootId => DownUp(heap, x)

(* C6, amended: outside Cover and Uncover, in a run with a backtracking
   Guesser, the horizontal pair holds for every data node, for the root and
   for every header linked in the header row; the vertical pair holds for
   every header, covered or not, and for every data node still linked in
   the list of its column. *)
C6_LinkedNodesLinked ==
    Backtracking =>
        LET live == LiveSet(heap) \cup {RootId}
        IN  \A x \in DOMAIN heap :
                /\ x \in DataNodes(heap) => RightLeft(heap, x)
                /\ x \in live => RightLeft(heap, x)
                /\ x \in Headers(heap) => DownUp(heap, x)
                /\ (x \in DataNodes(heap) /\ InColumn(heap, x)) => DownUp(heap, x)

(* Two columns are covered, a data node is unlinked from its column and
   another one is still linked. *)
C6_Witness ==
    /\ Backtracking /\ Len(covers) >= 2
    /\ \E x \in DataNodes(heap) : ~InColumn(heap, x)
    /\ \E x \in DataNodes(heap) : InColumn(heap, x) /\ heap[x].Col \notin Covered

----------------------------------------------------------------------------
(* C7: when Solve returns and the matrix with the forced rows committed has
   an exact cover, the rows of the returned Solution are an exact cover. *)
ForcedRows == RowsOf(O, k)

C7_ReturnedSolutionIsCover ==
    (pc = "returned" /\ g = "Solver"
       /\ \E S \in SUBSET RowIds : ForcedRows \subseteq S /\ IsExactCover(S))
    => CoverAt(O, Len(O))

----------------------------------------------------------------------------
(* C8: when the matrix has no exact cover, Solve with an empty partial
   assignment returns an empty Solution. *)
C8_NoCoverEmptySolution ==
    (pc = "returned" /\ DefaultSearch
       /\ ~\E S \in SUBSET RowIds : IsExactCover(S))
    => Len(O) = 0

----------------------------------------------------------------------------
(* C11: when the header row holds a live column, SmallestCol returns a live
   column of minimum Size, the first such column met walking right from the
   root, and never a covered column. *)
C11_SmallestColLeftmostMin ==
    LET live == LiveCols(heap)
        c == SmallestCol(heap)
    IN  live # <<>> =>
            \E x \in DOMAIN live :
                /\ live[x] = c
                /\ c \notin Covered
                /\ \A y \in DOMAIN live : heap[live[y]].Size >= heap[c].Size
                /\ \A y \in 1..(x - 1) : heap[live[y]].Size > heap[c].Size

(* A column of Size below every live Size is covered, and the two live
   columns share the minimum: the result is the first of them. *)
C11_Witness ==
    LET live == LiveCols(heap)
        c == SmallestCol(heap)
    IN  /\ pc = "ops" /\ Len(live) >= 2
        /\ \E x \in Covered : heap[x].Size < heap[c].Size
        /\ c = live[1] /\ heap[live[2]].Size = heap[c].Size

----------------------------------------------------------------------------
(* Walks over the lists, as sequences of the nodes met *)

(* Walking Down from x until c is met. *)
RECURSIVE DownSeq(_, _, _)
DownSeq(h, c, x) == IF x = c THEN <<>> ELSE <<x>> \o DownSeq(h, c, h[x].Down)

(* Walking Right from m until x is met. *)
RECURSIVE RightSeq(_, _, _)
RightSeq(h, x, m) == IF m = x THEN <<>> ELSE <<m>> \o RightSeq(h, x, h[m].Right)

(* Walking Left from m until x is met. *)
RECURSIVE LeftSeq(_, _, _)
LeftSeq(h, x, m) == IF m = x THEN <<>> ELSE <<m>> \o LeftSeq(h, x, h[m].Left)

Reverse(s) == [x \in DOMAIN s |-> s[Len(s) + 1 - x]]

(* The rows with a nonzero cell in column j, in input order. *)
NonzeroRows(j) ==
    LET Test(i) == matrix[i][j] > 0
    IN  SelectSeq([i \in RowIds |-> i], Test)

(* The columns with a nonzero cell in row i that come after column j in
   circular column order, starting right of j and ending left of it. *)
NonzeroColsAfter(i, j) ==
    LET Test(c) == matrix[i][c] > 0
        w == Len(headers)
    IN  SelectSeq([x \in 1..(w - 1) |-> ((j - 1 + x) % w) + 1], Test)

(* C13: after NewSparseMatrix on rows of equal length with one name per
   column, the root's row holds one header per name in name order; each
   column's Size is the number of its nonzero cells and its Down walk meets
   them in input-row order; the Right walk from a cell meets the row's other
   nonzero columns in circular column order, the Left walk in the reverse
   order; there is one node per nonzero cell, so none for an all-zero row. *)
C13_BuildMirrorsInput ==
    (pc = "built" /\ ~Mismatch) =>
        LET cols == LiveCols(heap)
        IN  /\ Len(cols) = Len(headers)
            /\ \A j \in DOMAIN cols :
                  LET cells == DownSeq(heap, cols[j], heap[cols[j]].Down)
                  IN  /\ heap[cols[j]].Name = headers[j]
                      /\ heap[cols[j]].Size = Len(NonzeroRows(j))
                      /\ [x \in DOMAIN cells |-> heap[cells[x]].Row] = NonzeroRows(j)
                      /\ \A x \in DOMAIN cells : heap[cells[x]].Col = cols[j]
            /\ \A x \in DataNodes(heap) :
                  \E j \in DOMAIN cols :
                      LET right == RightSeq(heap, x, heap[x].Right)
                          left == LeftSeq(heap, x, heap[x].Left)
                          after == NonzeroColsAfter(heap[x].Row, j)
                      IN  /\ heap[x].Col = cols[j]
                          /\ [y \in DOMAIN right |-> heap[right[y]].Col]
                                 = [y \in DOMAIN after |-> cols[after[y]]]
                          /\ \A y \in DOMAIN right : heap[right[y]].Row = heap[x].Row
                          /\ left = Reverse(right)
            /\ Cardinality(DataNodes(heap)) = NodeCount(matrix)
            /\ \A i \in RowIds :
                  ZeroRow(i) => ~\E x \in DataNodes(heap) : heap[x].Row = i

(* A matrix with an all-zero row and a row of three nonzero cells has been
   built. *)
C13_Witness ==
    /\ pc = "built" /\ ~Mismatch
    /\ \E i \in RowIds : ZeroRow(i)
    /\ \E i \in RowIds : Cardinality({c \in ColIds : matrix[i][c] > 0}) >= 3

----------------------------------------------------------------------------
(* C12: when every forced cell of the partial assignment has been committed
   to a row of its own and these rows are an exact cover, the header row is
   empty when Search is entered, the only call of Search is the one at depth
   k = number of forced rows, it emits without choosing or covering a
   column, and the returned Solution holds exactly the k forced rows. *)
AllForced == Len(ForcedCells(partial, KeysDescending(DOMAIN partial)))

FullyDetermined ==
    /\ pc \in {"search", "returned"}
    /\ k = AllForced
    /\ CoverAt(O, k)

C12_DeterminedEmitsAtOnce ==
    FullyDetermined =>
        /\ heap[Root(heap)].Right = Root(heap)
        /\ Len(covers) = Len(headers)
        /\ last.op # "uncover"
        /\ pc = "search" =>
              /\ Len(stack) = 1
              /\ Top.k = k /\ Top.c = Nil
              /\ Top.pc \in {"enter", "exit"}
              /\ Len(emitted) = (IF Top.pc = "exit" THEN 1 ELSE 0)
        /\ pc = "returned" => Len(emitted) = 1
        /\ \A x \in DOMAIN emitted :
              /\ emitted[x].k = k
              /\ emitted[x].O = O
        /\ Len(O) = k

(* Solve has returned after committing two forced rows that are an exact
   cover of a matrix of two columns. *)
C12_Witness ==
    /\ FullyDetermined /\ pc = "returned"
    /\ k = 2 /\ Len(headers) = 2

----------------------------------------------------------------------------
(* C14: Search started at depth 0 with the default Guesser returns, and the
   depth k of every call of the run is at most the number of columns. *)
DepthBounded == \A x \in DOMAIN stack : stack[x].k <= Len(headers)

C14_TerminatesDepthBounded == [](DepthBounded) /\ <>(pc = "returned")

(* The run has returned after a call at a depth equal to the number of
   columns, on a matrix of two columns or more. *)
C14_Witness ==
    /\ DefaultSearch /\ pc = "returned"
    /\ Len(headers) >= 2
    /\ \E x \in DOMAIN emitted : emitted[x].k = Len(headers)

----------------------------------------------------------------------------
(* C15: between the calls of Cover and Uncover of a run of Solve and Search
   with a backtracking Guesser, the Size of every header linked in the
   header row is the number of data nodes met walking Down from it, and no
   Size has wrapped below zero. *)
C15_SizeCountsLinkedCells ==
    Backtracking =>
        /\ \A c \in LiveSet(heap) :
              heap[c].Size = Len(DownSeq(heap, c, heap[c].Down))
        /\ \A c \in Headers(heap) : heap[c].Size <= Len(matrix)

(* A forced row is committed and Search has covered and uncovered a column:
   a live column has fewer cells linked than the input gave it. *)
C15_Witness ==
    /\ Backtracking /\ pc = "search" /\ k > 0
    /\ last.op = "uncover"
    /\ \E c \in LiveSet(heap) : heap[c].Size < Len(NonzeroRows(c))

----------------------------------------------------------------------------
(* C16, as stated: in a run of Search in which ChooseCol has returned
   backtrack=false, at whatever depth, terminal-success is reached at most
   once. *)
C16_CollapseEmitsOnce == collapsed => Len(emitted) <= 1

(* C16, amended: in a run of Search in which every ChooseCol returns
   backtrack=false, terminal-success is reached at most once. *)
C16_AlwaysCollapseEmitsOnce == g = "Collapse" => Len(emitted) <= 1

NodeCovers == {S \in SUBSET RowIds : IsExactCover(S) /\ \A i \in S : ~ZeroRow(i)}

(* A run that never backtracks has returned with one emission on a matrix
   that has two exact covers. *)
C16_Witness ==
    /\ g = "Collapse" /\ collapsed /\ pc = "returned"
    /\ Len(emitted) = 1
    /\ Cardinality(NodeCovers) >= 2

----------------------------------------------------------------------------
(* C17: a call of Search whose ChooseCol returned backtrack=false and a
   column with a row returns with r still the first row of the column and
   with no Uncover of its own: the chosen column and the other columns of
   that row are covered and not in the header row when it returns. *)
Returning == Searching /\ Top.pc = "exit"

(* The call at the top chose a column with a row and was told not to
   backtrack. *)
NoBacktrackLevel ==
    /\ Top.c # Nil /\ ~Top.bt
    /\ Top.entry[Top.c].Down # Top.c

RowCols(h, r) == {h[r].Col} \cup {h[x].Col : x \in Range(RightSeq(h, r, h[r].Right))}

C17_NoBacktrackLeavesCovered ==
    (Returning /\ NoBacktrackLevel) =>
        /\ Top.r = Top.entry[Top.c].Down
        /\ Get(O, Top.k) = Top.r
        /\ heap[Top.r].Col = Top.c
        /\ HeaderRowEnds(heap)
        /\ \A c \in RowCols(heap, Top.r) :
              c \in Covered /\ c \notin LiveSet(heap)

(* A call returns without backtracking from a row of two cells under which
   a solution was found, while its column has a second row. *)
C17_Witness ==
    /\ Returning /\ NoBacktrackLevel
    /\ Cardinality(RowCols(heap, Top.r)) >= 2
    /\ Top.entry[Top.c].Size >= 2
    /\ \E x \in DOMAIN emitted : emitted[x].k > Top.k

----------------------------------------------------------------------------
(* C18: what a call Cover(c) or Uncover(c) changes, from arena h to h2 *)

(* The columns, other than c, crossed by the rows linked in column c. *)
Crossed(h, c) ==
    {h[y].Col : y \in UNION {Range(RightSeq(h, x, h[x].Right)) :
                                x \in DownWalk(h, c, h[c].Down)}}

(* The column a node belongs to: a header is its own column. *)
ColumnOf(h, x) == IF h[x].Col = Nil THEN x ELSE h[x].Col

FrameOfCall(h, h2, c) ==
    LET crossed == Crossed(h, c)
        changed == {x \in DOMAIN h : h2[x] # h[x]}
    IN  /\ DOMAIN h2 = DOMAIN h
        /\ c \notin crossed
        /\ \A x \in changed :
              /\ h2[x].Col = h[x].Col
              /\ x \in DataNodes(h) =>
                    h2[x].Left = h[x].Left /\ h2[x].Right = h[x].Right
              /\ ColumnOf(h, x) = c =>
                    /\ h2[x].Up = h[x].Up /\ h2[x].Down = h[x].Down
                    /\ h2[x].Size = h[x].Size
              /\ h2[x].Left # h[x].Left => x = h[c].Right
              /\ h2[x].Right # h[x].Right => x = h[c].Left
              /\ (h2[x].Up # h[x].Up \/ h2[x].Down # h[x].Down
                    \/ h2[x].Size # h[x].Size)
                    => ColumnOf(h, x) \in crossed

(* C18: every Cover(c) and Uncover(c) leaves the Left and Right of data
   nodes, every Col, the Up and Down of c and of the cells of column c, and
   c's Size as they are; it changes Left or Right only of c's neighbours in
   the header row, and Up, Down or Size only in columns crossed by c's rows. *)
C18_CoverUncoverFrame ==
    [][heap' # heap => FrameOfCall(heap, heap', last'.col)]_vars

(* Both calls have run on a column whose rows cross two other columns. *)
C18_Witness ==
    /\ pc = "ops" /\ last.op = "uncover"
    /\ Cardinality(Crossed(heap, last.col)) >= 2

----------------------------------------------------------------------------
(* C19: for every index i >= 0 and node x, Get(i) after Set(i, x) returns x;
   Set leaves the entries at the other indices as they are, and on an index
   below Len it leaves Len as it is. *)
C19_SetThenGet ==
    /\ [](pc # "panic" /\ (pc = "solution" => o = n))
    /\ [][(pc = "solution" /\ pc' = "set") =>
            /\ \A i \in (0..(Len(O) - 1)) \ {k'} : Get(O', i) = Get(O, i)
            /\ k' < Len(O) => Len(O') = Len(O)]_vars

----------------------------------------------------------------------------
(* C20 *)

(* The block of cell (x, y). *)
Block(x, y) == (x \div Sdim) * Sdim + (y \div Sdim)

(* No digit is given twice in a row, a column or a block. *)
NoConflict ==
    \A d \in DOMAIN partial :
        \A a, b \in DOMAIN partial[d] :
            LET ca == partial[d][a]
                cb == partial[d][b]
            IN  a # b => /\ ca[1] # cb[1]
                         /\ ca[3] # cb[3]
                         /\ Block(ca[1], ca[3]) # Block(cb[1], cb[3])

(* C20: for givens that do not conflict, every walk of the pre-cover phase
   ends on a data node of the cell's existence column, in the input row
   that places the given digit in that cell; it ends neither on the header
   nor on the row of another digit, and the phase does not panic. *)
C20_GivenFindsItsRow ==
    NoConflict =>
        /\ pc # "panic"
        /\ pc = "forceRow" =>
              LET digit == Head(todo)[1]
                  name == Head(todo)[2]
              IN  /\ n \in DataNodes(heap)
                  /\ heap[heap[n].Col].Name = name
                  /\ heap[n].Row = (name[1] * SudokuDim + name[3]) * SudokuDim + digit
                  /\ matrix[heap[n].Row][heap[n].Col] = digit

(* The second given is found in a column that lost the row of a bigger
   digit to the covers of the first given. *)
C20_Witness ==
    /\ NoConflict /\ pc = "forceRow" /\ k = 1
    /\ n \in DataNodes(heap)
    /\ heap[heap[n].Col].Size < SudokuDim
    /\ Head(todo)[1] >= 2


----------------------------------------------------------------------------
(* C21 *)

(* The entries of the Solution below index depth are there and stay. *)
KeepsBelow(depth) ==
    \A i \in 1..depth : i \in DOMAIN O /\ i \in DOMAIN O' /\ O'[i] = O[i]

(* The call on top of the stack is back from m.Search(O, k+1, g) and is
   going to read its row again. *)
BackFromCall == Searching /\ Top.pc = "after" /\ Top.bt

(* C21: no step of a call Search(O, k, g) changes an entry of the Solution
   at an index below k, so the rows forced by the pre-cover phase stay in
   place; and when the recursive call Search(O, k+1, g) has returned, the
   entry at index k is the row r the call recorded there before it. *)
C21_SearchKeepsLowerEntries ==
    [][Searching =>
          /\ KeepsBelow(Top.k)
          /\ KeepsBelow(k)
          /\ BackFromCall => Get(O, Top.k) = Top.r]_vars

(* After one forced row, the call at depth 1 is back from a deeper call
   that emitted a cover. *)
C21_Witness ==
    /\ BackFromCall
    /\ k >= 1 /\ Top.k >= 1
    /\ Len(O) > Top.k
    /\ emitted # <<>>


----------------------------------------------------------------------------
(* C22 *)

(* The lines String gives for the first depth entries of a Solution. *)
CoverLines(h, s, depth) == String(h, SubSeq(s, 1, depth))

(* C22, as stated: at every terminal success of an exhaustive run, at depth
   k, the Solution holds exactly k entries, and the listing printed there
   has the lines of the k rows of the cover and no other line. *)
C22_EmittedLenIsDepth ==
    Backtracking =>
        \A x \in DOMAIN emitted :
            /\ Len(emitted[x].O) = emitted[x].k
            /\ emitted[x].out = CoverLines(heap, emitted[x].O, emitted[x].k)


----------------------------------------------------------------------------
(* C23 *)

(* The header c and the nodes met walking Down from it. *)
ColumnNodes(h, c) == {c} \cup DownWalk(h, c, h[c].Down)

(* C23: in a run of Solve and Search with a backtracking Guesser, between
   the calls of Cover and Uncover: Root() returns the root and the root is
   linked in the header row; the root was not passed to Cover or Uncover;
   every header met walking Right from the root has h.Right.Left = h and
   h.Left.Right = h; and every node met walking Down from such a header has
   n.Down.Up = n and n.Up.Down = n. *)
C23_LiveStructureConsistent ==
    Backtracking =>
        /\ Root(heap) = RootId
        /\ RightLeft(heap, RootId)
        /\ last.col # RootId
        /\ RootId \notin Covered
        /\ \A c \in LiveSet(heap) :
              /\ RightLeft(heap, c)
              /\ \A x \in ColumnNodes(heap, c) : DownUp(heap, x)

(* After a forced row, Search has uncovered a column again: a column with
   a cell is back in the header row while another one is still covered. *)
C23_Witness ==
    /\ Backtracking /\ pc = "search" /\ k >= 1
    /\ last.op = "uncover"
    /\ Covered # {}
    /\ \E c \in LiveSet(heap) : heap[c].Size >= 1 /\ heap[c].Down # c

====
